---- MODULE Spec2Model ----
(***************************************************************************)
(* A model of the generalized-ufunc inner loops of                         *)
(* rand_mfld_proj/gufuncs_cloop.c: DOUBLE_pdist_ratio, DOUBLE_cdist_ratio, *)
(* DOUBLE_matmul and DOUBLE_norm, each run by the broadcasting outer loop  *)
(* (INIT_/BEGIN_/END_OUTER_LOOP_n) over strided operands in one flat       *)
(* memory of npy_double cells.                                             *)
(*                                                                         *)
(* Numbers.  An npy_double is modelled exactly: a reduced fraction, a      *)
(* signed infinity, NaN, or the square root of a non-square fraction.      *)
(* Inputs are small integers, on which double arithmetic is exact; the     *)
(* quotient and the square root are kept exact instead of rounded (both    *)
(* roundings are monotone, so the comparisons of the code are the same).   *)
(* The sign of zero is not modelled.                                       *)
(***************************************************************************)
EXTENDS Integers, Sequences, FiniteSets, TLC

(***************************************************************************)
(* Bounds of the model.                                                    *)
(***************************************************************************)
MaxD == 3        \* points per set (d, d1, d2)
MaxDim == 2      \* coordinates per point, vector length, matrix side
MaxVal == 4      \* the cells of a vector norm reads hold -MaxVal..MaxVal
MaxAxes == 2     \* batch axes of the outer loop
MaxBatch == 3    \* size of one batch axis

ElemSize == 8    \* sizeof(npy_double), the unit of every byte stride

(***************************************************************************)
(* npy_double                                                              *)
(***************************************************************************)
Abs(i) == IF i < 0 THEN -i ELSE i

Sgn(i) == IF i < 0 THEN -1 ELSE IF i = 0 THEN 0 ELSE 1

RECURSIVE GCD(_, _)
GCD(a, b) == IF b = 0 THEN a ELSE GCD(b, a % b)

\* the double n/d (d # 0), as a reduced fraction with a positive denominator
Rat(n, d) ==
    LET g == GCD(Abs(n), Abs(d))
    IN  [k |-> "fin", n |-> (Sgn(d) * n) \div g, d |-> Abs(d) \div g]

Int2D(i) == [k |-> "fin", n |-> i, d |-> 1]

Inf(s) == [k |-> "inf", n |-> s, d |-> 0]

NaN == [k |-> "nan", n |-> 0, d |-> 0]

IsNaN(x) == x.k = "nan"

IsFin(x) == x.k = "fin"

\* x + y
FAdd(x, y) ==
    IF x.k = "nan" \/ y.k = "nan" THEN NaN
    ELSE IF x.k = "inf" /\ y.k = "inf" THEN (IF x.n = y.n THEN x ELSE NaN)
    ELSE IF x.k = "inf" THEN x
    ELSE IF y.k = "inf" THEN y
    ELSE Rat(x.n * y.d + y.n * x.d, x.d * y.d)

\* -x
FNeg(x) == IF x.k = "nan" THEN NaN ELSE [x EXCEPT !.n = -x.n]

\* x - y
FSub(x, y) == FAdd(x, FNeg(y))

\* x * y
FMul(x, y) ==
    IF x.k = "nan" \/ y.k = "nan" THEN NaN
    ELSE IF x.k = "inf" \/ y.k = "inf"
         THEN (IF x.n = 0 \/ y.n = 0 THEN NaN ELSE Inf(Sgn(x.n) * Sgn(y.n)))
    ELSE Rat(x.n * y.n, x.d * y.d)

\* a division that yields 0 rather than an infinity or NaN on a zero divisor
FDivGuarded(x, y) ==
    IF x.k = "nan" \/ y.k = "nan" THEN NaN
    ELSE IF x.k = "inf"
         THEN (IF y.k = "inf" THEN NaN ELSE Inf(x.n * (IF y.n < 0 THEN -1 ELSE 1)))
    ELSE IF y.k = "inf" THEN Int2D(0)
    ELSE IF y.n = 0 THEN Int2D(0)
    ELSE Rat(x.n * y.d, x.d * y.n)

\* x / y: a zero divisor gives an infinity, 0/0 and inf/inf give NaN
FDiv(x, y) ==
    IF x.k = "nan" \/ y.k = "nan" THEN NaN
    ELSE IF x.k = "inf"
         THEN (IF y.k = "inf" THEN NaN ELSE Inf(x.n * (IF y.n < 0 THEN -1 ELSE 1)))
    ELSE IF y.k = "inf" THEN Int2D(0)
    ELSE IF y.n = 0 THEN (IF x.n = 0 THEN NaN ELSE Inf(Sgn(x.n)))
    ELSE Rat(x.n * y.d, x.d * y.n)

\* x < y: false as soon as one side is NaN
FLt(x, y) ==
    IF x.k = "nan" \/ y.k = "nan" THEN FALSE
    ELSE IF x.k = "inf" THEN x.n < 0 /\ ~(y.k = "inf" /\ y.n < 0)
    ELSE IF y.k = "inf" THEN y.n > 0
    ELSE x.n * y.d < y.n * x.d

\* x > y
FGt(x, y) == FLt(y, x)

IsSquare(i) == \E r \in 0..i : r * r = i

ISqrt(i) == CHOOSE r \in 0..i : r * r = i

\* npy_sqrt: exact on squares, a symbolic root otherwise
npy_sqrt(x) ==
    IF x.k = "nan" THEN NaN
    ELSE IF x.k = "inf" THEN (IF x.n > 0 THEN x ELSE NaN)
    ELSE IF x.n < 0 THEN NaN
    ELSE IF IsSquare(x.n) /\ IsSquare(x.d) THEN Rat(ISqrt(x.n), ISqrt(x.d))
    ELSE [k |-> "root", n |-> x.n, d |-> x.d]

\* the process-wide constants set by init_constants()
d_zero == Int2D(0)

d_inf == Inf(1)

(***************************************************************************)
(* Memory and operands                                                     *)
(***************************************************************************)
\* byte addresses of the input cells and of the output cells
NCells == MaxD + MaxDim

InAddrs == {ElemSize * c : c \in 0..(NCells - 1)}

OutBase == ElemSize * NCells

NOutCells == 2 * MaxDim * MaxDim + 2

OutAddrs == {OutBase + ElemSize * c : c \in 0..(NOutCells - 1)}

Addrs == InAddrs \cup OutAddrs

\* what an output cell holds before any kernel stores to it
Garbage == Int2D(7)

SetMin(S) == CHOOSE x \in S : \A y \in S : x <= y

\* byte offsets of the elements of a strided vector and of a strided matrix
VecOffs(len, stride) == {i * stride : i \in 0..(len - 1)}

MatOffs(rows, row_stride, cols, col_stride) ==
    {i * row_stride + j * col_stride : i \in 0..(rows - 1), j \in 0..(cols - 1)}

\* the lowest base address that keeps every offset inside the input region
BaseFor(offs) == -SetMin(offs \cup {0})

Shift(S, by) == {a + by : a \in S}

\* what a coordinate of a point or an entry of a matrix holds: squared distances
\* 0, 1, 2, ..., so that the ratios 0, 1/2, 1, 2, infinity and NaN all occur
Bits == {0, 1}

\* core strides, in bytes: one negative, zero, one positive
Strides == {-ElemSize, 0, ElemSize}

\* strides from one point (row) to the next: those, and rows of two cells
RowStrides == Strides \cup {2 * ElemSize}

VARIABLES
    kernel,       \* the inner loop being run
    pc,           \* position in it
    mem,          \* memory: byte address -> npy_double
    written,      \* addresses stored to so far
    args,         \* char **args: the operands' current base addresses
    dimensions,   \* npy_intp *dimensions past the outer ones: the core sizes
    steps,        \* npy_intp *steps past the outer ones: the core strides
    outer_dims,   \* the batch axes' sizes
    outer_steps,  \* per batch axis, each operand's byte stride
    idx,          \* the outer loop's index on each batch axis
    more,         \* the outer loop has a combination left to run
    calls,        \* the index combinations the body was run for, in order
    d1, d2, ip_num_fr, ip_den_fr, ip_num_to, ip_den_to, dr_min, dr_max,
    visits,       \* the pairs pdist_ratio / cdist_ratio evaluated, in order
    m, p, ip_x, ip_y, op_z

driverVars == <<outer_dims, outer_steps, idx, more, calls>>

callVars == <<kernel, dimensions, steps>>

distVars == <<d1, d2, ip_num_fr, ip_den_fr, ip_num_to, ip_den_to, dr_min, dr_max, visits>>

matVars == <<m, p, ip_x, ip_y, op_z>>

vars == <<kernel, pc, mem, written, args, dimensions, steps, driverVars, distVars, matVars>>

\* *(npy_double *)a
Load(a) == mem[a]

\* memory after *(npy_double *)a = v
Store(memory, a, v) == [memory EXCEPT ![a] = v]

LocalsInit ==
    /\ d1 = 0 /\ d2 = 0
    /\ ip_num_fr = 0 /\ ip_den_fr = 0 /\ ip_num_to = 0 /\ ip_den_to = 0
    /\ dr_min = d_zero /\ dr_max = d_zero
    /\ visits = <<>>
    /\ m = 0 /\ p = 0 /\ ip_x = 0 /\ ip_y = 0 /\ op_z = 0

(***************************************************************************)
(* The broadcasting outer loop (INIT_/BEGIN_/END_OUTER_LOOP_n)             *)
(***************************************************************************)
RECURSIVE SeqsUpTo(_, _)
SeqsUpTo(S, n) ==
    IF n = 0 THEN {<<>>}
    ELSE LET shorter == SeqsUpTo(S, n - 1)
         IN  shorter \cup {Append(s, x) : s \in {t \in shorter : Len(t) = n - 1}, x \in S}

BatchShapes == SeqsUpTo(0..MaxBatch, MaxAxes)

RECURSIVE Product(_)
Product(s) == IF s = <<>> THEN 1 ELSE Head(s) * Product(Tail(s))

\* a loop entry without the test for an empty axis
INIT_OUTER_LOOP_Unchecked ==
    /\ pc = "entry"
    /\ idx' = [ax \in 1..Len(outer_dims) |-> 0]
    /\ more' = TRUE
    /\ pc' = "outer"
    /\ UNCHANGED <<callVars, mem, written, args, outer_dims, outer_steps, calls, distVars, matVars>>

\* INIT_OUTER_LOOP_n: every axis at index 0; nothing to run when an axis is empty
INIT_OUTER_LOOP ==
    /\ pc = "entry"
    /\ idx' = [ax \in 1..Len(outer_dims) |-> 0]
    /\ more' = \A ax \in 1..Len(outer_dims) : outer_dims[ax] > 0
    /\ pc' = "outer"
    /\ UNCHANGED <<callVars, mem, written, args, outer_dims, outer_steps, calls, distVars, matVars>>

\* BEGIN_OUTER_LOOP_n: run the body for the current combination
BEGIN_OUTER_LOOP ==
    /\ pc = "outer"
    /\ more
    /\ calls' = Append(calls, idx)
    /\ pc' = "body"
    /\ UNCHANGED <<callVars, mem, written, args, outer_dims, outer_steps, idx, more, distVars, matVars>>

\* an odometer that runs the first axis fastest: it steps the axis mirroring ax
RECURSIVE OdometerFirstFastest(_, _, _)
OdometerFirstFastest(ax, ix, ar) ==
    IF ax = 0 THEN [idx |-> ix, args |-> ar, more |-> FALSE]
    ELSE LET a == Len(outer_dims) + 1 - ax
         IN  IF ix[a] + 1 < outer_dims[a]
             THEN [idx  |-> [ix EXCEPT ![a] = @ + 1],
                   args |-> [o \in DOMAIN ar |-> ar[o] + outer_steps[a][o]],
                   more |-> TRUE]
             ELSE OdometerFirstFastest(ax - 1,
                                       [ix EXCEPT ![a] = 0],
                                       [o \in DOMAIN ar |-> ar[o] - ix[a] * outer_steps[a][o]])

\* the odometer: step the axis ax; on wraparound rewind it and carry into ax - 1
RECURSIVE Odometer(_, _, _)
Odometer(ax, ix, ar) ==
    IF ax = 0 THEN [idx |-> ix, args |-> ar, more |-> FALSE]
    ELSE IF ix[ax] + 1 < outer_dims[ax]
         THEN [idx  |-> [ix EXCEPT ![ax] = @ + 1],
               args |-> [a \in DOMAIN ar |-> ar[a] + outer_steps[ax][a]],
               more |-> TRUE]
         ELSE Odometer(ax - 1,
                       [ix EXCEPT ![ax] = 0],
                       [a \in DOMAIN ar |-> ar[a] - ix[ax] * outer_steps[ax][a]])

\* END_OUTER_LOOP_n: advance every operand to the next combination
END_OUTER_LOOP ==
    /\ pc = "body_end"
    /\ LET next == Odometer(Len(outer_dims), idx, args)
       IN  /\ idx' = next.idx
           /\ args' = next.args
           /\ more' = next.more
    /\ pc' = "outer"
    /\ UNCHANGED <<callVars, mem, written, outer_dims, outer_steps, calls, distVars, matVars>>

\* the loop is over: the kernel returns
OuterLoopExit ==
    /\ pc = "outer"
    /\ ~more
    /\ pc' = "return"
    /\ UNCHANGED <<callVars, mem, written, args, driverVars, distVars, matVars>>

\* a kernel body that does nothing, to watch the outer loop alone
KernelBody ==
    /\ pc = "body"
    /\ kernel = "none"
    /\ pc' = "body_end"
    /\ UNCHANGED <<callVars, mem, written, args, driverVars, distVars, matVars>>

\* the outer loop around an empty body, two operands
InitDriver ==
    /\ kernel = "none"
    /\ pc = "entry"
    /\ mem = [a \in Addrs |-> Garbage]
    /\ written = {}
    /\ args = [a \in 0..1 |-> 0]
    /\ dimensions = <<>>
    /\ steps = <<>>
    /\ outer_dims \in BatchShapes
    /\ outer_steps \in [1..Len(outer_dims) -> [0..1 -> {0, ElemSize}]]
    /\ idx = <<>>
    /\ more = FALSE
    /\ calls = <<>>
    /\ LocalsInit

NextDriver ==
    \/ INIT_OUTER_LOOP
    \/ BEGIN_OUTER_LOOP
    \/ KernelBody
    \/ END_OUTER_LOOP
    \/ OuterLoopExit

SpecDriver == InitDriver /\ [][NextDriver]_vars

\* the loop is sequential code: a step that can be taken is taken
SpecDriverFair == SpecDriver /\ WF_vars(NextDriver)

(***************************************************************************)
(* Inputs of the kernel specifications                                     *)
(***************************************************************************)
\* a batch: its shape and the batch stride of every input operand
Batch(shape, bs) == [shape |-> shape, bs |-> bs]

\* the batch a kernel is studied under alone: one element
OneCall == {Batch(<<1>>, ElemSize)}

\* the batches of the outer loop around the kernels: none, empty, repeated
KernelBatch ==
    {Batch(<<>>, 0), Batch(<<0>>, ElemSize), Batch(<<2>>, 0), Batch(<<2>>, ElemSize),
     Batch(<<2, 0>>, ElemSize), Batch(<<0, 2>>, ElemSize)}

\* byte offsets an operand with batch stride b takes over the batch
RECURSIVE BatchOffs(_, _)
BatchOffs(shape, b) ==
    IF shape = <<>> THEN {0}
    ELSE {i * b + o : i \in 0..(Head(shape) - 1), o \in BatchOffs(Tail(shape), b)}

Spread(offs, shape, b) == {o + t : o \in offs, t \in BatchOffs(shape, b)}

\* memory holding f on the cells the kernel reads, 0 on the other input cells
MemWith(f) ==
    [a \in Addrs |-> IF a \in DOMAIN f THEN Int2D(f[a])
                     ELSE IF a \in InAddrs THEN d_zero ELSE Garbage]

\* a function on 0..Len(s)-1, as the C arrays are indexed
Arr(s) == [i \in 0..(Len(s) - 1) |-> s[i + 1]]

(***************************************************************************)
(* NORM                                                                    *)
(***************************************************************************)
\* a loop that adds the elements without squaring them
RECURSIVE NormLoopPlain(_, _, _, _, _, _)
NormLoopPlain(memory, n, len_n, stride_n, ip, normsq) ==
    IF n < len_n
    THEN NormLoopPlain(memory, n + 1, len_n, stride_n, ip + stride_n,
                       FAdd(normsq, memory[ip]))
    ELSE normsq

\* for (n = 0; n < len_n; n++) { normsq += *ip_x * *ip_x; ip_x += stride_n; }
RECURSIVE NormLoop(_, _, _, _, _, _)
NormLoop(memory, n, len_n, stride_n, ip, normsq) ==
    IF n < len_n
    THEN NormLoop(memory, n + 1, len_n, stride_n, ip + stride_n,
                  FAdd(normsq, FMul(memory[ip], memory[ip])))
    ELSE normsq

\* one run of the body of DOUBLE_norm
DOUBLE_norm ==
    /\ pc = "body"
    /\ kernel = "norm"
    /\ LET len_n    == dimensions[0]
           stride_n == steps[0]
           op_r     == args[1]
           normsq   == NormLoop(mem, 0, len_n, stride_n, args[0], d_zero)
       IN  /\ mem' = Store(mem, op_r, npy_sqrt(normsq))
           /\ written' = written \cup {op_r}
    /\ pc' = "body_end"
    /\ UNCHANGED <<callVars, args, driverVars, distVars, matVars>>

InitNormOn(vals, batches) ==
    /\ kernel = "norm"
    /\ pc = "entry"
    /\ written = {}
    /\ idx = <<>>
    /\ more = FALSE
    /\ calls = <<>>
    /\ LocalsInit
    /\ \E len_n \in 0..MaxDim, stride_n \in Strides, b \in batches :
          LET shape   == b.shape
              bs      == b.bs
              offs    == Spread(VecOffs(len_n, stride_n), shape, bs)
              base    == BaseFor(offs)
              touched == Shift(offs, base)
          IN  /\ touched \subseteq InAddrs
              /\ dimensions = Arr(<<len_n>>)
              /\ steps = Arr(<<stride_n>>)
              /\ args = Arr(<<base, OutBase>>)
              /\ outer_dims = shape
              /\ outer_steps = [ax \in 1..Len(shape) |-> Arr(<<bs, ElemSize>>)]
              /\ \E f \in [touched -> vals] : mem = MemWith(f)

InitNorm == InitNormOn((-MaxVal)..MaxVal, OneCall)

NextNorm ==
    \/ INIT_OUTER_LOOP
    \/ BEGIN_OUTER_LOOP
    \/ DOUBLE_norm
    \/ END_OUTER_LOOP
    \/ OuterLoopExit

SpecNorm == InitNorm /\ [][NextNorm]_vars

(***************************************************************************)
(* PDIST_RATIO and CDIST_RATIO                                             *)
(***************************************************************************)
\* LINEARIZE_DATA_t, as init_linearize_vdata fills it
init_linearize_vdata(len, strides) ==
    [len |-> len, strides |-> strides, back_strides |-> len * strides]

\* the loop of DOUBLE_dist from element k on; X and Y are the callee's copies
RECURSIVE DistLoop(_, _, _, _, _, _)
DistLoop(k, X, Y, dist, x_in, y_in) ==
    IF k < x_in.len
    THEN LET separation == FSub(Load(X), Load(Y))
         IN  DistLoop(k + 1, X + x_in.strides, Y + y_in.strides,
                      FAdd(dist, FMul(separation, separation)), x_in, y_in)
    ELSE dist

\* *dist after DOUBLE_dist(X, Y, &dist, x_in, y_in); the caller's X, Y are untouched
DOUBLE_dist(X, Y, dist, x_in, y_in) == DistLoop(0, X, Y, dist, x_in, y_in)

\* a minimum that a NaN ratio takes over
UpdateMinNaN(ratio, min) == IF IsNaN(ratio) \/ FLt(ratio, min) THEN ratio ELSE min

\* if (ratio < dr_min) dr_min = ratio;
UpdateMin(ratio, min) == IF FLt(ratio, min) THEN ratio ELSE min

\* the comparison of the maximum turned around
UpdateMaxLt(ratio, max) == IF FLt(ratio, max) THEN ratio ELSE max

\* a maximum that a NaN ratio takes over
UpdateMaxNaN(ratio, max) == IF IsNaN(ratio) \/ FGt(ratio, max) THEN ratio ELSE max

\* if (ratio > dr_max) dr_max = ratio;
UpdateMax(ratio, max) == IF FGt(ratio, max) THEN ratio ELSE max

\* the record of one evaluated pair
Visit(numerator, denominator) ==
    [d1 |-> d1, d2 |-> d2,
     num_fr |-> ip_num_fr, num_to |-> ip_num_to,
     den_fr |-> ip_den_fr, den_to |-> ip_den_to,
     numerator |-> numerator, denominator |-> denominator,
     ratio |-> FDiv(numerator, denominator)]

\* the two stores that end a body of pdist_ratio / cdist_ratio
WriteRatios(op1, op2) ==
    /\ mem' = Store(Store(mem, op1, npy_sqrt(dr_min)), op2, npy_sqrt(dr_max))
    /\ written' = written \cup {op1, op2}

\* ---- DOUBLE_pdist_ratio, signature (d,m),(d,n)->(),() ----

\* body entry with the running minimum started at zero, like the maximum
PdistEnterMinZero ==
    /\ pc = "body"
    /\ kernel = "pdist"
    /\ ip_num_fr' = args[0]
    /\ ip_den_fr' = args[1]
    /\ dr_min' = d_zero
    /\ dr_max' = d_zero
    /\ d1' = 0
    /\ visits' = <<>>
    /\ pc' = "d1_loop"
    /\ UNCHANGED <<callVars, mem, written, args, driverVars, d2, ip_num_to, ip_den_to, matVars>>

\* body entry: from-pointers at the first point, running min/max reset
PdistEnter ==
    /\ pc = "body"
    /\ kernel = "pdist"
    /\ ip_num_fr' = args[0]
    /\ ip_den_fr' = args[1]
    /\ dr_min' = d_inf
    /\ dr_max' = d_zero
    /\ d1' = 0
    /\ visits' = <<>>
    /\ pc' = "d1_loop"
    /\ UNCHANGED <<callVars, mem, written, args, driverVars, d2, ip_num_to, ip_den_to, matVars>>

\* a d1 loop over all the points whose d2 loop starts at d1 itself
PdistFromSelf ==
    /\ pc = "d1_loop"
    /\ kernel = "pdist"
    /\ IF d1 < dimensions[0]
       THEN /\ ip_num_to' = ip_num_fr
            /\ ip_den_to' = ip_den_fr
            /\ d2' = d1
            /\ pc' = "d2_loop"
       ELSE /\ pc' = "write"
            /\ UNCHANGED <<ip_num_to, ip_den_to, d2>>
    /\ UNCHANGED <<callVars, mem, written, args, driverVars, d1, ip_num_fr, ip_den_fr,
                   dr_min, dr_max, visits, matVars>>

\* for (d1 = 0; d1 < len_d-1; d1++): enter the row of d1, or leave the loop
PdistFrom ==
    /\ pc = "d1_loop"
    /\ kernel = "pdist"
    /\ LET len_d        == dimensions[0]
           stride_num_d == steps[0]
           stride_den_d == steps[2]
       IN  IF d1 < len_d - 1
           THEN /\ ip_num_to' = ip_num_fr + stride_num_d
                /\ ip_den_to' = ip_den_fr + stride_den_d
                /\ d2' = d1 + 1
                /\ pc' = "d2_loop"
           ELSE /\ pc' = "write"
                /\ UNCHANGED <<ip_num_to, ip_den_to, d2>>
    /\ UNCHANGED <<callVars, mem, written, args, driverVars, d1, ip_num_fr, ip_den_fr,
                   dr_min, dr_max, visits, matVars>>

\* one pass of for (d2 = d1 + 1; d2 < len_d; d2++): the pair (d1, d2)
PdistPair ==
    /\ pc = "d2_loop"
    /\ kernel = "pdist"
    /\ d2 < dimensions[0]
    /\ LET stride_num_d == steps[0]
           stride_den_d == steps[2]
           num_in       == init_linearize_vdata(dimensions[1], steps[1])
           den_in       == init_linearize_vdata(dimensions[2], steps[3])
           numerator    == DOUBLE_dist(ip_num_fr, ip_num_to, d_zero, num_in, num_in)
           denominator  == DOUBLE_dist(ip_den_fr, ip_den_to, d_zero, den_in, den_in)
           ratio        == FDiv(numerator, denominator)
       IN  /\ dr_min' = UpdateMin(ratio, dr_min)
           /\ dr_max' = UpdateMax(ratio, dr_max)
           /\ ip_num_to' = ip_num_to + stride_num_d
           /\ ip_den_to' = ip_den_to + stride_den_d
           /\ visits' = Append(visits, Visit(numerator, denominator))
    /\ d2' = d2 + 1
    /\ UNCHANGED <<callVars, pc, mem, written, args, driverVars, d1, ip_num_fr, ip_den_fr, matVars>>

\* the row of d1 is done: next from-point
PdistNext ==
    /\ pc = "d2_loop"
    /\ kernel = "pdist"
    /\ ~(d2 < dimensions[0])
    /\ ip_num_fr' = ip_num_fr + steps[0]
    /\ ip_den_fr' = ip_den_fr + steps[2]
    /\ d1' = d1 + 1
    /\ pc' = "d1_loop"
    /\ UNCHANGED <<callVars, mem, written, args, driverVars, d2, ip_num_to, ip_den_to,
                   dr_min, dr_max, visits, matVars>>

\* *(npy_double *)op1 = npy_sqrt(dr_min); *(npy_double *)op2 = npy_sqrt(dr_max);
PdistWrite ==
    /\ pc = "write"
    /\ kernel = "pdist"
    /\ WriteRatios(args[2], args[3])
    /\ pc' = "body_end"
    /\ UNCHANGED <<callVars, args, driverVars, distVars, matVars>>

\* the second output array starts after the first one's batch
OutSpan(shape) == ElemSize * (IF Product(shape) = 0 THEN 1 ELSE Product(shape))

\* pdist_ratio on every point set of the bounds, cells drawn from vals
InitPdistOn(vals, batches, rowStrides, colStrides) ==
    /\ kernel = "pdist"
    /\ pc = "entry"
    /\ written = {}
    /\ idx = <<>>
    /\ more = FALSE
    /\ calls = <<>>
    /\ LocalsInit
    /\ \E len_d \in 0..MaxD, len_m \in 0..MaxDim, len_n \in 0..MaxDim,
          stride_num_d \in rowStrides, stride_m \in colStrides,
          stride_den_d \in rowStrides, stride_n \in colStrides, b \in batches :
          LET shape    == b.shape
              bs       == b.bs
              num_offs == Spread(MatOffs(len_d, stride_num_d, len_m, stride_m), shape, bs)
              den_offs == Spread(MatOffs(len_d, stride_den_d, len_n, stride_n), shape, bs)
              touched  == Shift(num_offs, BaseFor(num_offs)) \cup Shift(den_offs, BaseFor(den_offs))
          IN  /\ touched \subseteq InAddrs
              /\ dimensions = Arr(<<len_d, len_m, len_n>>)
              /\ steps = Arr(<<stride_num_d, stride_m, stride_den_d, stride_n>>)
              /\ args = Arr(<<BaseFor(num_offs), BaseFor(den_offs), OutBase, OutBase + OutSpan(shape)>>)
              /\ outer_dims = shape
              /\ outer_steps = [ax \in 1..Len(shape) |-> Arr(<<bs, bs, ElemSize, ElemSize>>)]
              /\ \E f \in [touched -> vals] : mem = MemWith(f)

InitPdist == InitPdistOn(Bits, OneCall, RowStrides, Strides)

NextPdist ==
    \/ INIT_OUTER_LOOP
    \/ BEGIN_OUTER_LOOP
    \/ PdistEnter
    \/ PdistFrom
    \/ PdistPair
    \/ PdistNext
    \/ PdistWrite
    \/ END_OUTER_LOOP
    \/ OuterLoopExit

SpecPdist == InitPdist /\ [][NextPdist]_vars

\* ---- DOUBLE_cdist_ratio, signature (d1,m),(d2,m),(d1,n),(d2,n)->(),() ----

\* body entry: from-pointers at the first from-point, running min/max reset
CdistEnter ==
    /\ pc = "body"
    /\ kernel = "cdist"
    /\ ip_num_fr' = args[0]
    /\ ip_den_fr' = args[2]
    /\ dr_min' = d_inf
    /\ dr_max' = d_zero
    /\ d1' = 0
    /\ visits' = <<>>
    /\ pc' = "d1_loop"
    /\ UNCHANGED <<callVars, mem, written, args, driverVars, d2, ip_num_to, ip_den_to, matVars>>

\* for (d1 = 0; d1 < len_fr_d; d1++): to-pointers back at the first to-point
CdistFrom ==
    /\ pc = "d1_loop"
    /\ kernel = "cdist"
    /\ LET len_fr_d == dimensions[0]
       IN  IF d1 < len_fr_d
           THEN /\ ip_num_to' = args[1]
                /\ ip_den_to' = args[3]
                /\ d2' = 0
                /\ pc' = "d2_loop"
           ELSE /\ pc' = "write"
                /\ UNCHANGED <<ip_num_to, ip_den_to, d2>>
    /\ UNCHANGED <<callVars, mem, written, args, driverVars, d1, ip_num_fr, ip_den_fr,
                   dr_min, dr_max, visits, matVars>>

\* one pass of for (d2 = 0; d2 < len_to_d; d2++): the pair (d1, d2)
CdistPair ==
    /\ pc = "d2_loop"
    /\ kernel = "cdist"
    /\ d2 < dimensions[2]
    /\ LET len_m           == dimensions[1]
           len_n           == dimensions[3]
           stride_num_to_d == steps[2]
           stride_den_to_d == steps[6]
           num_fr_in       == init_linearize_vdata(len_m, steps[1])
           num_to_in       == init_linearize_vdata(len_m, steps[3])
           den_fr_in       == init_linearize_vdata(len_n, steps[5])
           den_to_in       == init_linearize_vdata(len_n, steps[7])
           numerator       == DOUBLE_dist(ip_num_fr, ip_num_to, d_zero, num_fr_in, num_to_in)
           denominator     == DOUBLE_dist(ip_den_fr, ip_den_to, d_zero, den_fr_in, den_to_in)
           ratio           == FDiv(numerator, denominator)
       IN  /\ dr_min' = UpdateMin(ratio, dr_min)
           /\ dr_max' = UpdateMax(ratio, dr_max)
           /\ ip_num_to' = ip_num_to + stride_num_to_d
           /\ ip_den_to' = ip_den_to + stride_den_to_d
           /\ visits' = Append(visits, Visit(numerator, denominator))
    /\ d2' = d2 + 1
    /\ UNCHANGED <<callVars, pc, mem, written, args, driverVars, d1, ip_num_fr, ip_den_fr, matVars>>

\* the row of d1 is done: next from-point
CdistNext ==
    /\ pc = "d2_loop"
    /\ kernel = "cdist"
    /\ ~(d2 < dimensions[2])
    /\ ip_num_fr' = ip_num_fr + steps[0]
    /\ ip_den_fr' = ip_den_fr + steps[4]
    /\ d1' = d1 + 1
    /\ pc' = "d1_loop"
    /\ UNCHANGED <<callVars, mem, written, args, driverVars, d2, ip_num_to, ip_den_to,
                   dr_min, dr_max, visits, matVars>>

\* *(npy_double *)op1 = npy_sqrt(dr_min); *(npy_double *)op2 = npy_sqrt(dr_max);
CdistWrite ==
    /\ pc = "write"
    /\ kernel = "cdist"
    /\ WriteRatios(args[4], args[5])
    /\ pc' = "body_end"
    /\ UNCHANGED <<callVars, args, driverVars, distVars, matVars>>

\* where the outputs of the cdist_ratio call go: past those of pdist_ratio
CrossOut == OutBase + 2 * ElemSize * MaxDim

\* pdist_ratio(S_num, S_den) has returned; the caller now runs
\* cdist_ratio(S_num, S_num, S_den, S_den) on the same point sets and batch,
\* the to-sets being the whole sets or the sets without their last point
CallCdist ==
    /\ pc = "return"
    /\ kernel = "pdist"
    /\ kernel' = "cdist"
    /\ \E len_to_d \in {dimensions[0], dimensions[0] - 1} \cap Nat :
          dimensions' = Arr(<<dimensions[0], dimensions[1], len_to_d, dimensions[2]>>)
    /\ steps' = Arr(<<steps[0], steps[1], steps[0], steps[1],
                      steps[2], steps[3], steps[2], steps[3]>>)
    /\ args' = Arr(<<args[0], args[0], args[1], args[1],
                     CrossOut, CrossOut + OutSpan(outer_dims)>>)
    /\ outer_steps' = [ax \in 1..Len(outer_dims) |->
                          Arr(<<outer_steps[ax][0], outer_steps[ax][0],
                                outer_steps[ax][1], outer_steps[ax][1], ElemSize, ElemSize>>)]
    /\ calls' = <<>>
    /\ pc' = "entry"
    /\ UNCHANGED <<mem, written, outer_dims, idx, more, distVars, matVars>>

InitCross == InitPdistOn(Bits, OneCall, Strides, {0, ElemSize})

NextCross ==
    \/ INIT_OUTER_LOOP
    \/ BEGIN_OUTER_LOOP
    \/ PdistEnter
    \/ PdistFrom
    \/ PdistPair
    \/ PdistNext
    \/ PdistWrite
    \/ CdistEnter
    \/ CdistFrom
    \/ CdistPair
    \/ CdistNext
    \/ CdistWrite
    \/ END_OUTER_LOOP
    \/ OuterLoopExit
    \/ CallCdist

SpecCross == InitCross /\ [][NextCross]_vars

(***************************************************************************)
(* MATMUL, signature (m,n),(n,p)->(m,p)                                    *)
(***************************************************************************)
\* for (n = 0; n < len_n; n++) { *op_z += *ip_x * *ip_y; ip_x += ...; ip_y += ...; }
RECURSIVE MatmulInner(_, _, _, _, _, _, _, _)
MatmulInner(memory, n, len_n, x, y, z, stride_x_n, stride_y_n) ==
    IF n < len_n
    THEN MatmulInner(Store(memory, z, FAdd(memory[z], FMul(memory[x], memory[y]))),
                     n + 1, len_n, x + stride_x_n, y + stride_y_n, z, stride_x_n, stride_y_n)
    ELSE [mem |-> memory, ip_x |-> x, ip_y |-> y]

\* body entry: the three pointers at the operands' first elements
MatmulEnter ==
    /\ pc = "body"
    /\ kernel = "matmul"
    /\ ip_x' = args[0]
    /\ ip_y' = args[1]
    /\ op_z' = args[2]
    /\ m' = 0
    /\ pc' = "m_loop"
    /\ UNCHANGED <<callVars, mem, written, args, driverVars, distVars, p>>

\* for (m = 0; m < len_m; m++): enter row m, or leave the loop
MatmulRow ==
    /\ pc = "m_loop"
    /\ kernel = "matmul"
    /\ IF m < dimensions[0]
       THEN /\ p' = 0
            /\ pc' = "p_loop"
       ELSE /\ pc' = "body_end"
            /\ UNCHANGED p
    /\ UNCHANGED <<callVars, mem, written, args, driverVars, distVars, m, ip_x, ip_y, op_z>>

\* the output cell left as it was found
ZeroCellSkipped(memory, z) == memory

\* *(npy_double *)op_z = d_zero;
ZeroCell(memory, z) == Store(memory, z, d_zero)

\* one pass of for (p = 0; p < len_p; p++): the cell (m, p)
MatmulCell ==
    /\ pc = "p_loop"
    /\ kernel = "matmul"
    /\ p < dimensions[2]
    /\ LET len_n      == dimensions[1]
           stride_x_n == steps[1]
           stride_y_n == steps[2]
           stride_y_p == steps[3]
           stride_z_p == steps[5]
           iback_x_n  == len_n * stride_x_n
           iback_y_n  == len_n * stride_y_n
           inner      == MatmulInner(ZeroCell(mem, op_z), 0, len_n, ip_x, ip_y, op_z,
                                     stride_x_n, stride_y_n)
       IN  /\ mem' = inner.mem
           /\ written' = written \cup {op_z}
           /\ ip_x' = inner.ip_x - iback_x_n
           /\ ip_y' = (inner.ip_y - iback_y_n) + stride_y_p
           /\ op_z' = op_z + stride_z_p
    /\ p' = p + 1
    /\ UNCHANGED <<callVars, pc, args, driverVars, distVars, m>>

\* row m is done: rewind along p, step along m
MatmulRowEnd ==
    /\ pc = "p_loop"
    /\ kernel = "matmul"
    /\ ~(p < dimensions[2])
    /\ LET len_p      == dimensions[2]
           stride_x_m == steps[0]
           stride_y_p == steps[3]
           stride_z_m == steps[4]
           stride_z_p == steps[5]
           iback_y_p  == len_p * stride_y_p
           iback_z_p  == len_p * stride_z_p
       IN  /\ ip_y' = ip_y - iback_y_p
           /\ op_z' = (op_z - iback_z_p) + stride_z_m
           /\ ip_x' = ip_x + stride_x_m
    /\ m' = m + 1
    /\ pc' = "m_loop"
    /\ UNCHANGED <<callVars, mem, written, args, driverVars, distVars, p>>

\* strides (stride_z_m, stride_z_p) of the output: row-major, column-major,
\* row-major with the rows reversed, and two layouts whose cells collide
ZStrides ==
    {<<MaxDim * ElemSize, ElemSize>>, <<ElemSize, MaxDim * ElemSize>>,
     <<-(MaxDim * ElemSize), ElemSize>>, <<ElemSize, ElemSize>>, <<0, ElemSize>>}

\* the size of one batch element of the output
ZSpan == ElemSize * MaxDim * MaxDim

InitMatmulOn(vals, batches, xStrides, yStrides) ==
    /\ kernel = "matmul"
    /\ pc = "entry"
    /\ written = {}
    /\ idx = <<>>
    /\ more = FALSE
    /\ calls = <<>>
    /\ LocalsInit
    /\ \E len_m \in 0..MaxDim, len_n \in 0..MaxDim, len_p \in 0..MaxDim,
          stride_x_m \in xStrides, stride_x_n \in xStrides,
          stride_y_n \in yStrides, stride_y_p \in yStrides,
          sz \in ZStrides, b \in batches :
          LET shape   == b.shape
              bs      == b.bs
              x_offs  == Spread(MatOffs(len_m, stride_x_m, len_n, stride_x_n), shape, bs)
              y_offs  == Spread(MatOffs(len_n, stride_y_n, len_p, stride_y_p), shape, bs)
              z_offs  == MatOffs(len_m, sz[1], len_p, sz[2])
              touched == Shift(x_offs, BaseFor(x_offs)) \cup Shift(y_offs, BaseFor(y_offs))
          IN  /\ touched \subseteq InAddrs
              /\ dimensions = Arr(<<len_m, len_n, len_p>>)
              /\ steps = Arr(<<stride_x_m, stride_x_n, stride_y_n, stride_y_p, sz[1], sz[2]>>)
              /\ args = Arr(<<BaseFor(x_offs), BaseFor(y_offs), OutBase + BaseFor(z_offs)>>)
              /\ outer_dims = shape
              /\ outer_steps = [ax \in 1..Len(shape) |-> Arr(<<bs, bs, ZSpan>>)]
              /\ \E f \in [touched -> vals] : mem = MemWith(f)

InitMatmul == InitMatmulOn(Bits, OneCall, Strides, Strides)

NextMatmul ==
    \/ INIT_OUTER_LOOP
    \/ BEGIN_OUTER_LOOP
    \/ MatmulEnter
    \/ MatmulRow
    \/ MatmulCell
    \/ MatmulRowEnd
    \/ END_OUTER_LOOP
    \/ OuterLoopExit

SpecMatmul == InitMatmul /\ [][NextMatmul]_vars

(***************************************************************************)
(* The four kernels under the outer loop, over every batch of KernelBatch  *)
(***************************************************************************)
Init ==
    \/ InitPdistOn(Bits, KernelBatch, {0, ElemSize}, {ElemSize})
    \/ InitMatmulOn(Bits, KernelBatch, {ElemSize}, {ElemSize})
    \/ InitNormOn(Bits, KernelBatch)

Next ==
    \/ INIT_OUTER_LOOP
    \/ BEGIN_OUTER_LOOP
    \/ PdistEnter
    \/ PdistFrom
    \/ PdistPair
    \/ PdistNext
    \/ PdistWrite
    \/ CdistEnter
    \/ CdistFrom
    \/ CdistPair
    \/ CdistNext
    \/ CdistWrite
    \/ MatmulEnter
    \/ MatmulRow
    \/ MatmulCell
    \/ MatmulRowEnd
    \/ DOUBLE_norm
    \/ END_OUTER_LOOP
    \/ OuterLoopExit
    \/ CallCdist

Spec == Init /\ [][Next]_vars

(***************************************************************************)
(* What the kernels are to compute, stated on the operands in memory       *)
(***************************************************************************)
\* the integer an input cell holds
Cell(a) == mem[a].n

RECURSIVE SumUpTo(_, _)
SumUpTo(f, n) == IF n = 0 THEN 0 ELSE SumUpTo(f, n - 1) + f[n - 1]

\* squared distance of the len-vectors at a (stride sa) and b (stride sb)
SqDist(a, sa, b, sb, len) ==
    SumUpTo([k \in 0..(len - 1) |-> (Cell(a + k * sa) - Cell(b + k * sb)) * (Cell(a + k * sa) - Cell(b + k * sb))],
            len)

\* the least and the greatest of a set of ratios, NaN left out, from the
\* starting values +infinity and 0
LeastOf(S) ==
    LET T == {x \in S : ~IsNaN(x)} \cup {d_inf}
    IN  CHOOSE x \in T : \A y \in T : ~FLt(y, x)

GreatestOf(S) ==
    LET T == {x \in S : ~IsNaN(x)} \cup {d_zero}
    IN  CHOOSE x \in T : \A y \in T : ~FLt(x, y)

AtBodyEnd(k) == kernel = k /\ pc = "body_end"

\* the point sets of the current pdist_ratio body: operand 0 and operand 1
PFirst(i) == args[0] + i * steps[0]

PSecond(i) == args[1] + i * steps[2]

PFirstSq(i, j) == SqDist(PFirst(i), steps[1], PFirst(j), steps[1], dimensions[1])

PSecondSq(i, j) == SqDist(PSecond(i), steps[3], PSecond(j), steps[3], dimensions[2])

PPairs == {ij \in (0..(dimensions[0] - 1)) \X (0..(dimensions[0] - 1)) : ij[1] < ij[2]}

(***************************************************************************)
(* C1: a pdist_ratio batch element with fewer than 2 points visits no pair *)
(* and stores +infinity (drmin) and 0 (drmax) to its two outputs, whatever *)
(* M, N and the strides are.                                               *)
(***************************************************************************)
C1_FewPoints ==
    (kernel = "pdist" /\ dimensions[0] < 2) =>
        /\ visits = <<>>
        /\ pc # "d2_loop"
        /\ pc = "body_end" =>
              /\ mem[args[2]] = d_inf
              /\ mem[args[3]] = d_zero
              /\ {args[2], args[3]} \subseteq written

C1_Witness ==
    /\ AtBodyEnd("pdist")
    /\ dimensions[0] = 1
    /\ dimensions[1] = 2
    /\ dimensions[2] = 1
    /\ steps[1] = -ElemSize
    /\ mem[args[2]] = d_inf
    /\ mem[args[3]] = d_zero

(***************************************************************************)
(* C2: pdist_ratio on a point set whose two operands hold the same         *)
(* coordinates (M = N >= 1, D >= 2) returns drmin = drmax = 1.             *)
(* As stated, for every such set: C2_Original.  It fails when all points   *)
(* coincide: every ratio is 0/0 = NaN, no comparison is true, and the      *)
(* outputs stay +infinity and 0.  Amended (C2_SameCoords): it returns 1, 1 *)
(* whenever at least two of the points differ.                             *)
(***************************************************************************)
SameCoords ==
    /\ dimensions[1] = dimensions[2]
    /\ \A i \in 0..(dimensions[0] - 1), k \in 0..(dimensions[1] - 1) :
          Cell(PFirst(i) + k * steps[1]) = Cell(PSecond(i) + k * steps[3])

C2_Case == AtBodyEnd("pdist") /\ dimensions[0] >= 2 /\ dimensions[1] >= 1 /\ SameCoords

C2_Original ==
    C2_Case => (mem[args[2]] = Int2D(1) /\ mem[args[3]] = Int2D(1))

C2_SameCoords ==
    (C2_Case /\ \E ij \in PPairs : PFirstSq(ij[1], ij[2]) > 0) =>
        (mem[args[2]] = Int2D(1) /\ mem[args[3]] = Int2D(1))

\* three points, two of them equal, read through different strides
C2_Witness ==
    /\ C2_Case
    /\ dimensions[0] = 3
    /\ dimensions[1] = 2
    /\ steps[0] # steps[2]
    /\ \E ij \in PPairs : PFirstSq(ij[1], ij[2]) = 0
    /\ \E ij \in PPairs : PFirstSq(ij[1], ij[2]) = 2
    /\ mem[args[2]] = Int2D(1)
    /\ mem[args[3]] = Int2D(1)

\* the ratio of two squared distances, as the kernels form it
RatioOf(num, den) == FDiv(Int2D(num), Int2D(den))

\* the point sets of the current cdist_ratio body: squared distance from point
\* i of operand 0 to point j of operand 1, and from operand 2 to operand 3
CFirstSq(i, j) ==
    SqDist(args[0] + i * steps[0], steps[1], args[1] + j * steps[2], steps[3], dimensions[1])

CLastSq(i, j) ==
    SqDist(args[2] + i * steps[4], steps[5], args[3] + j * steps[6], steps[7], dimensions[3])

\* where pdist_ratio, run before on the same batch element, put its outputs
PdistOut1 == OutBase + (args[4] - CrossOut)

PdistOut2 == OutBase + (args[5] - CrossOut)

(***************************************************************************)
(* C3: cdist_ratio with from-set = to-set (operands S_num, S_num, S_den,   *)
(* S_den, P = R = D) stores the same two outputs as pdist_ratio(S_num,     *)
(* S_den) did: the extrema over the pairs with i # j.  The self-pairs have *)
(* ratio 0/0 and change nothing.                                           *)
(***************************************************************************)
C3_SelfCross ==
    (AtBodyEnd("cdist") /\ dimensions[2] = dimensions[0]) =>
        LET D == dimensions[0]
            R == {RatioOf(CFirstSq(ij[1], ij[2]), CLastSq(ij[1], ij[2])) :
                    ij \in {x \in (0..(D - 1)) \X (0..(D - 1)) : x[1] # x[2]}}
        IN  /\ mem[args[4]] = mem[PdistOut1]
            /\ mem[args[5]] = mem[PdistOut2]
            /\ mem[args[4]] = npy_sqrt(LeastOf(R))
            /\ mem[args[5]] = npy_sqrt(GreatestOf(R))
            /\ {args[4], args[5], PdistOut1, PdistOut2} \subseteq written
            /\ Len(visits) = D * D
            /\ \A t \in 1..Len(visits) : visits[t].d1 = visits[t].d2 => IsNaN(visits[t].ratio)

\* three points, ratios 1/2 and 2 among the pairs, the self-pairs visited
C3_Witness ==
    /\ AtBodyEnd("cdist")
    /\ dimensions[0] = 3
    /\ dimensions[2] = 3
    /\ \E t \in 1..Len(visits) : visits[t].d1 = visits[t].d2 /\ IsNaN(visits[t].ratio)
    /\ mem[args[4]] = npy_sqrt(Rat(1, 2))
    /\ mem[args[5]] = npy_sqrt(Int2D(2))
    /\ mem[PdistOut1] = npy_sqrt(Rat(1, 2))
    /\ mem[PdistOut2] = npy_sqrt(Int2D(2))

\* the cells of the operands of the current matmul body
XAt(i, n) == args[0] + i * steps[0] + n * steps[1]

YAt(n, j) == args[1] + n * steps[2] + j * steps[3]

ZAt(i, j) == args[2] + i * steps[4] + j * steps[5]

ZIndex == (0..(dimensions[0] - 1)) \X (0..(dimensions[2] - 1))

\* the M*P output cells are distinct (they never overlap the inputs here)
ZDistinct == \A a \in ZIndex, b \in ZIndex : ZAt(a[1], a[2]) = ZAt(b[1], b[2]) => a = b

(***************************************************************************)
(* C4: when its M*P output cells are distinct, matmul leaves in every cell *)
(* Z[m,p] the sum over n = 0..N-1 of X[m,n] * Y[n,p], the operands read    *)
(* and written through their byte strides; every cell is 0 when N = 0, and *)
(* nothing but these cells is stored to.                                   *)
(***************************************************************************)
C4_MatmulSum ==
    (AtBodyEnd("matmul") /\ ZDistinct) =>
        /\ \A c \in ZIndex :
              /\ mem[ZAt(c[1], c[2])] =
                    Int2D(SumUpTo([n \in 0..(dimensions[1] - 1) |->
                                      Cell(XAt(c[1], n)) * Cell(YAt(n, c[2]))], dimensions[1]))
              /\ dimensions[1] = 0 => mem[ZAt(c[1], c[2])] = d_zero
        /\ written = {ZAt(c[1], c[2]) : c \in ZIndex}

\* a full 2x2 by 2x2 product, X read backwards along n, with cells 1 and 2
C4_Witness ==
    /\ AtBodyEnd("matmul")
    /\ ZDistinct
    /\ dimensions[0] = 2 /\ dimensions[1] = 2 /\ dimensions[2] = 2
    /\ steps[1] = -ElemSize
    /\ \E c \in ZIndex : mem[ZAt(c[1], c[2])] = Int2D(2)
    /\ \E c \in ZIndex : mem[ZAt(c[1], c[2])] = Int2D(1)

\* an empty inner dimension: the cells are zeroed and nothing is added
C4_WitnessEmpty ==
    /\ AtBodyEnd("matmul")
    /\ dimensions[0] = 2 /\ dimensions[1] = 0 /\ dimensions[2] = 2
    /\ ZDistinct
    /\ \A c \in ZIndex : mem[ZAt(c[1], c[2])] = d_zero

\* the index combination number t (from 0) of the Cartesian product of the
\* batch axes, counted row-major: the last axis runs fastest
RowMajor(t) ==
    [ax \in 1..Len(outer_dims) |->
        (t \div Product(SubSeq(outer_dims, ax + 1, Len(outer_dims)))) % outer_dims[ax]]

\* all index combinations of the batch shape
Combinations ==
    {f \in [1..Len(outer_dims) -> 0..MaxBatch] : \A ax \in 1..Len(outer_dims) : f[ax] < outer_dims[ax]}

C5_Order ==
    /\ \A t \in 1..Len(calls) : calls[t] = RowMajor(t - 1)
    /\ \A s \in 1..Len(calls), t \in 1..Len(calls) : calls[s] = calls[t] => s = t
    /\ Len(calls) <= Product(outer_dims)
    /\ pc = "return" =>
          /\ Len(calls) = Product(outer_dims)
          /\ {calls[t] : t \in 1..Len(calls)} = Combinations
          /\ outer_dims = <<2, 3>> =>
                calls = << <<0, 0>>, <<0, 1>>, <<0, 2>>, <<1, 0>>, <<1, 1>>, <<1, 2>> >>

(***************************************************************************)
(* C5: the outer loop runs the body once for each index combination of the *)
(* batch axes, in row-major order (last axis fastest), never twice for one *)
(* combination, n_1 * ... * n_k times in all, and then returns; for the    *)
(* batch shape (2,3) the order is (0,0),(0,1),(0,2),(1,0),(1,1),(1,2).     *)
(***************************************************************************)
C5_RowMajor == [](C5_Order) /\ <>(pc = "return")

C5_Witness ==
    /\ kernel = "none"
    /\ pc = "return"
    /\ outer_dims = <<2, 3>>
    /\ calls = << <<0, 0>>, <<0, 1>>, <<0, 2>>, <<1, 0>>, <<1, 1>>, <<1, 2>> >>

EmptyBatch == \E ax \in 1..Len(outer_dims) : outer_dims[ax] = 0

(***************************************************************************)
(* C6: in each of the four kernels, a batch shape with a zero along some   *)
(* outer axis runs the kernel body zero times and stores to no address:    *)
(* the output cells keep what they held.                                   *)
(***************************************************************************)
C6_EmptyBatch ==
    EmptyBatch =>
        /\ kernel \in {"pdist", "cdist", "matmul", "norm"}
        /\ calls = <<>>
        /\ pc \in {"entry", "outer", "return"}
        /\ visits = <<>>
        /\ written = {}
        /\ \A a \in OutAddrs : mem[a] = Garbage

\* a 2x2 by 2x2 matmul over the batch shape (2,0) has returned
C6_Witness ==
    /\ kernel = "matmul"
    /\ pc = "return"
    /\ outer_dims = <<2, 0>>
    /\ dimensions[0] = 2 /\ dimensions[1] = 2 /\ dimensions[2] = 2
    /\ written = {}

\* the same for the other three kernels
C6_WitnessOthers ==
    /\ kernel \in {"pdist", "cdist", "norm"}
    /\ pc = "return"
    /\ EmptyBatch
    /\ dimensions[0] = 2
    /\ written = {}

\* a body of pdist_ratio or cdist_ratio has stored its outputs
AtDistEnd == pc = "body_end" /\ kernel \in {"pdist", "cdist"}

\* the two output cells, in the order of the signature
Out1 == IF kernel = "pdist" THEN args[2] ELSE args[4]

Out2 == IF kernel = "pdist" THEN args[3] ELSE args[5]

\* the ratios of the pairs the kernel goes over, as the code forms them:
\* distances in operand 0 (cdist_ratio: 0 and 1) over those in the last operand(s)
PRatios == {RatioOf(PFirstSq(ij[1], ij[2]), PSecondSq(ij[1], ij[2])) : ij \in PPairs}

CRatios ==
    {RatioOf(CFirstSq(i, j), CLastSq(i, j)) :
        i \in 0..(dimensions[0] - 1), j \in 0..(dimensions[2] - 1)}

Ratios == IF kernel = "pdist" THEN PRatios ELSE CRatios

(***************************************************************************)
(* C7: pdist_ratio and cdist_ratio return the maximum distance ratio as    *)
(* their first output (drmax) and the minimum as their second (drmin), as  *)
(* their docstrings say.  The code stores them the other way round:        *)
(* npy_sqrt(dr_min) to the first output and npy_sqrt(dr_max) to the second *)
(* (C7_StoredOrder).                                                       *)
(***************************************************************************)
C7_MaxFirst ==
    AtDistEnd =>
        /\ mem[Out1] = npy_sqrt(GreatestOf(Ratios))
        /\ mem[Out2] = npy_sqrt(LeastOf(Ratios))

\* what the code does
C7_StoredOrder ==
    AtDistEnd =>
        /\ mem[Out1] = npy_sqrt(LeastOf(Ratios))
        /\ mem[Out2] = npy_sqrt(GreatestOf(Ratios))

\* three points with ratios 1/2, 1 and 2: the first output is the smaller one
C7_Witness ==
    /\ AtBodyEnd("pdist")
    /\ dimensions[0] = 3
    /\ PRatios = {Rat(1, 2), Int2D(1), Int2D(2)}
    /\ mem[Out1] = npy_sqrt(Rat(1, 2))
    /\ mem[Out2] = npy_sqrt(Int2D(2))

\* the same in cdist_ratio, on three from-points and two to-points
C7_WitnessCdist ==
    /\ AtBodyEnd("cdist")
    /\ dimensions[2] = 2
    /\ mem[Out1] = npy_sqrt(Rat(1, 2))
    /\ mem[Out2] = npy_sqrt(Int2D(2))

\* a body of pdist_ratio or cdist_ratio is going over its pairs
InDist == kernel \in {"pdist", "cdist"} /\ pc \in {"d1_loop", "d2_loop", "write", "body_end"}

(***************************************************************************)
(* C8: in pdist_ratio the first input operand supplies the denominator     *)
(* distance of each ratio and the second the numerator distance; in        *)
(* cdist_ratio the first two operands supply the denominator and the last  *)
(* two the numerator, as the docstrings say.  The code has the roles       *)
(* reversed: the leading operand(s) give the numerator (C8_CodeOperands).  *)
(***************************************************************************)
C8_FirstIsDenominator ==
    InDist =>
        \A t \in 1..Len(visits) :
            LET v == visits[t]
            IN  IF kernel = "pdist"
                THEN /\ v.denominator = Int2D(PFirstSq(v.d1, v.d2))
                     /\ v.numerator = Int2D(PSecondSq(v.d1, v.d2))
                ELSE /\ v.denominator = Int2D(CFirstSq(v.d1, v.d2))
                     /\ v.numerator = Int2D(CLastSq(v.d1, v.d2))

\* what the code does
C8_CodeOperands ==
    InDist =>
        \A t \in 1..Len(visits) :
            LET v == visits[t]
            IN  IF kernel = "pdist"
                THEN /\ v.numerator = Int2D(PFirstSq(v.d1, v.d2))
                     /\ v.denominator = Int2D(PSecondSq(v.d1, v.d2))
                ELSE /\ v.numerator = Int2D(CFirstSq(v.d1, v.d2))
                     /\ v.denominator = Int2D(CLastSq(v.d1, v.d2))

\* two points at squared distance 2 in the first operand and 1 in the second:
\* the outputs are sqrt(2/1), not sqrt(1/2)
C8_Witness ==
    /\ AtBodyEnd("pdist")
    /\ dimensions[0] = 2
    /\ PFirstSq(0, 1) = 2
    /\ PSecondSq(0, 1) = 1
    /\ visits[1].ratio = Int2D(2)
    /\ mem[Out1] = npy_sqrt(Int2D(2))
    /\ mem[Out2] = npy_sqrt(Int2D(2))

\* the element n of the vector of the current norm body
VAt(n) == args[0] + n * steps[0]

\* memory with every input element negated
Negated == [a \in Addrs |-> IF a \in InAddrs THEN FNeg(mem[a]) ELSE mem[a]]

(***************************************************************************)
(* C9: norm stores to its output the square root of the sum of the squares *)
(* of the N elements at X0 + n*stride, n = 0..N-1, for every N >= 0 and    *)
(* every stride (positive, zero, negative); it stores 0 when N = 0, and    *)
(* the same value as for the input with every element negated.             *)
(***************************************************************************)
C9_Norm ==
    AtBodyEnd("norm") =>
        LET N == dimensions[0]
        IN  /\ mem[args[1]] =
                  npy_sqrt(Int2D(SumUpTo([n \in 0..(N - 1) |-> Cell(VAt(n)) * Cell(VAt(n))], N)))
            /\ N = 0 => mem[args[1]] = d_zero
            /\ mem[args[1]] = npy_sqrt(NormLoop(Negated, 0, N, steps[0], args[0], d_zero))
            /\ written = {args[1]}

\* the vector (4, -3) read backwards: its norm is 5, as is that of (-4, 3)
C9_Witness ==
    /\ AtBodyEnd("norm")
    /\ dimensions[0] = 2
    /\ steps[0] = -ElemSize
    /\ Cell(VAt(0)) = 4
    /\ Cell(VAt(1)) = -3
    /\ mem[args[1]] = Int2D(5)

\* an empty vector
C9_WitnessEmpty ==
    /\ AtBodyEnd("norm")
    /\ dimensions[0] = 0
    /\ mem[args[1]] = d_zero

\* an evaluated pair with denominator 0 and a positive numerator
ZeroDen(v) == v.denominator = d_zero /\ FGt(v.numerator, d_zero)

\* the number of pairs one body goes over
PairCount == IF kernel = "pdist" THEN Cardinality(PPairs) ELSE dimensions[0] * dimensions[2]

(***************************************************************************)
(* C10: in pdist_ratio and cdist_ratio a visited pair with squared         *)
(* denominator distance 0 and positive squared numerator distance stops    *)
(* nothing: its ratio is +infinity, the running maximum becomes +infinity, *)
(* the kernel leaves its loops only after every remaining pair, stores     *)
(* both outputs, and the drmax output (the second) is +infinity.           *)
(***************************************************************************)
C10_ZeroDenominator ==
    (InDist /\ \E t \in 1..Len(visits) : ZeroDen(visits[t])) =>
        /\ \A t \in 1..Len(visits) : ZeroDen(visits[t]) => visits[t].ratio = d_inf
        /\ dr_max = d_inf
        /\ Len(visits) <= PairCount
        /\ pc = "write" => Len(visits) = PairCount
        /\ AtDistEnd =>
              /\ Len(visits) = PairCount
              /\ {Out1, Out2} \subseteq written
              /\ mem[Out2] = d_inf
              /\ mem[Out1] = npy_sqrt(LeastOf(Ratios))

\* pdist_ratio on three points: the first pair has denominator 0, the two
\* pairs after it are still evaluated, and the minimum is finite
C10_Witness ==
    /\ AtBodyEnd("pdist")
    /\ dimensions[0] = 3
    /\ Len(visits) = 3
    /\ ZeroDen(visits[1])
    /\ visits[2].ratio = Int2D(2)
    /\ visits[3].ratio = Int2D(1)
    /\ mem[Out1] = Int2D(1)
    /\ mem[Out2] = d_inf

\* cdist_ratio: the second of its pairs, (0, 1), has denominator 0
C10_WitnessCdist ==
    /\ AtBodyEnd("cdist")
    /\ Len(visits) >= 4
    /\ ZeroDen(visits[2])
    /\ IsFin(visits[Len(visits)].ratio)
    /\ mem[Out1] = Int2D(1)
    /\ mem[Out2] = d_inf

\* a body of pdist_ratio is going over its pairs
InPdist == kernel = "pdist" /\ pc \in {"d1_loop", "d2_loop", "write", "body_end"}

\* the pairs (i, j), i < j < D, in the order of the two loops
PairBefore(a, b) == a[1] < b[1] \/ (a[1] = b[1] /\ a[2] < b[2])

(***************************************************************************)
(* C11: one pdist_ratio batch element evaluates the ratio for each pair    *)
(* (i, j) with 0 <= i < j < D exactly once, C(D,2) evaluations in all and  *)
(* never a pair with i = j or i > j; at the evaluation of (i, j) the       *)
(* from-pointers are at base + i*stride_d and the to-pointers at           *)
(* base + j*stride_d in the numerator and in the denominator operand, and  *)
(* each distance is accumulated from 0: it is the squared distance of the  *)
(* two points and nothing more.                                            *)
(***************************************************************************)
C11_Pairs ==
    InPdist =>
        LET D == dimensions[0]
        IN  /\ \A t \in 1..Len(visits) :
                  LET v == visits[t]
                  IN  /\ 0 <= v.d1 /\ v.d1 < v.d2 /\ v.d2 < D
                      /\ v.num_fr = args[0] + v.d1 * steps[0]
                      /\ v.num_to = args[0] + v.d2 * steps[0]
                      /\ v.den_fr = args[1] + v.d1 * steps[2]
                      /\ v.den_to = args[1] + v.d2 * steps[2]
                      /\ v.numerator = Int2D(PFirstSq(v.d1, v.d2))
                      /\ v.denominator = Int2D(PSecondSq(v.d1, v.d2))
            /\ \A s \in 1..Len(visits), t \in 1..Len(visits) :
                  s < t => PairBefore(<<visits[s].d1, visits[s].d2>>, <<visits[t].d1, visits[t].d2>>)
            /\ pc \in {"write", "body_end"} =>
                  /\ {<<visits[t].d1, visits[t].d2>> : t \in 1..Len(visits)} = PPairs
                  /\ 2 * Len(visits) = D * (D - 1) \/ (D = 0 /\ visits = <<>>)

\* three points of two coordinates, the numerator rows read backwards and the
\* denominator rows two cells apart: the pairs (0,1), (0,2), (1,2) in turn
C11_Witness ==
    /\ AtBodyEnd("pdist")
    /\ dimensions[0] = 3
    /\ dimensions[1] = 2
    /\ steps[0] = -ElemSize
    /\ steps[2] = 2 * ElemSize
    /\ [t \in 1..Len(visits) |-> <<visits[t].d1, visits[t].d2>>] = << <<0, 1>>, <<0, 2>>, <<1, 2>> >>
    /\ visits[2].num_to = args[0] - 2 * ElemSize
    /\ visits[3].den_fr = args[1] + 2 * ElemSize
    /\ visits[3].numerator = Int2D(2)

\* the ratios evaluated so far that are not NaN
SeenRatios == {visits[t].ratio : t \in {s \in 1..Len(visits) : ~IsNaN(visits[s].ratio)}}

\* the running extrema are those of the ratios that are not NaN; a ratio is
\* NaN exactly when both squared distances are 0
C12_Running ==
    InDist =>
        /\ dr_min = LeastOf(SeenRatios)
        /\ dr_max = GreatestOf(SeenRatios)
        /\ \A t \in 1..Len(visits) :
              IsNaN(visits[t].ratio) <=>
                  (visits[t].numerator = d_zero /\ visits[t].denominator = d_zero)
        /\ AtDistEnd =>
              /\ mem[Out1] = npy_sqrt(LeastOf(SeenRatios))
              /\ mem[Out2] = npy_sqrt(GreatestOf(SeenRatios))
              /\ SeenRatios = {} => (mem[Out1] = d_inf /\ mem[Out2] = d_zero)

\* the evaluation of a pair whose ratio is NaN changes neither extremum
C12_NaNStep ==
    ((PdistPair \/ CdistPair) /\ IsNaN(visits'[Len(visits')].ratio)) =>
        (dr_min' = dr_min /\ dr_max' = dr_max)

(***************************************************************************)
(* C12: in pdist_ratio and cdist_ratio a visited pair whose ratio is NaN   *)
(* (both squared distances 0) leaves the running minimum and the running   *)
(* maximum unchanged, so the outputs are the extrema over the ratios that  *)
(* are not NaN, and +infinity and 0 when every visited ratio is NaN.       *)
(***************************************************************************)
C12_NaNIgnored == [](C12_Running) /\ [][C12_NaNStep]_vars

\* pdist_ratio on three points: the second pair is NaN, coming after a ratio
\* of 2 has set both extrema, and the outputs are sqrt(2)
C12_Witness ==
    /\ AtBodyEnd("pdist")
    /\ dimensions[0] = 3
    /\ visits[1].ratio = Int2D(2)
    /\ IsNaN(visits[2].ratio)
    /\ mem[Out1] = npy_sqrt(Int2D(2))
    /\ mem[Out2] = npy_sqrt(Int2D(2))

\* cdist_ratio on coinciding points: every ratio is NaN
C12_WitnessAllNaN ==
    /\ AtBodyEnd("cdist")
    /\ Len(visits) >= 4
    /\ \A t \in 1..Len(visits) : IsNaN(visits[t].ratio)
    /\ mem[Out1] = d_inf
    /\ mem[Out2] = d_zero

====
